---- MODULE Spec2Model ----
(***************************************************************************)
(* Task and tag service layer of clawban (backend/src/services).           *)
(*                                                                         *)
(* The store (Supabase / PostgREST) executes one request atomically; the   *)
(* service code between two store requests touches only the caller's own   *)
(* locals and the clock.  One action of a call is therefore "the store     *)
(* answers the pending request and the caller runs on to its next store    *)
(* request (or to its return)".  Strings that the code transforms (tag     *)
(* names) are sequences of UTF-16 code units.                              *)
(***************************************************************************)
EXTENDS Integers, Sequences, FiniteSets, TLC

(* ------------------------------ bounds -------------------------------- *)

\* ids nanoid() hands out to tasks
MaxTasks == 2
\* calls started in one behaviour
MaxOps == 3
\* last value of the clock (Date.now())
MaxClock == 1

\* the request-handling workers that run calls concurrently
Procs == {1, 2}

\* the task ids calls are addressed to
TaskIds == 1..MaxTasks

(* --------------------------- null values ------------------------------ *)

\* JavaScript null in a string-valued column (assignee)
Null == "<null>"
\* JavaScript null in a timestamp column (completed_at)
NoTime == -1

(* --------------------- strings as code units -------------------------- *)

\* String.prototype.trim strips white space and line terminators
IsWhiteSpace(c) == c \in {9, 10, 11, 12, 13, 32, 160}

\* String.prototype.toLowerCase on one code unit (ASCII range)
ToLowerCase(c) == IF c >= 65 /\ c <= 90 THEN c + 32 ELSE c

RECURSIVE TrimStart(_)
TrimStart(s) ==
  IF s # <<>> /\ IsWhiteSpace(Head(s)) THEN TrimStart(Tail(s)) ELSE s

RECURSIVE TrimEnd(_)
TrimEnd(s) ==
  IF s # <<>> /\ IsWhiteSpace(s[Len(s)])
    THEN TrimEnd(SubSeq(s, 1, Len(s) - 1))
    ELSE s

Trim(s) == TrimEnd(TrimStart(s))

\* normalization that forgets toLowerCase
NormalizeNoLower(name) == Trim(name)

\* const normalizedName = name.trim().toLowerCase();
Normalize(name) ==
  LET t == Trim(name) IN [i \in 1..Len(t) |-> ToLowerCase(t[i])]

(* ------------------------ generateTagColor ---------------------------- *)

\* A 32-bit word is kept as two 16-bit halves so that no intermediate
\* value leaves the range of the checker's integers.
Half == 65536

U32(hi, lo) == [hi |-> hi, lo |-> lo]

\* ToInt32 of a small non-negative number (a code unit)
U32Of(n) == U32(n \div Half, n % Half)

U32Add(a, b) ==
  LET lo == a.lo + b.lo
  IN  U32((a.hi + b.hi + (lo \div Half)) % Half, lo % Half)

\* two's complement negation
U32Neg(a) == U32Add(U32(Half - 1 - a.hi, Half - 1 - a.lo), U32(0, 1))

\* hash << 5
U32Shl5(a) ==
  LET lo == a.lo * 32
  IN  U32((a.hi * 32 + (lo \div Half)) % Half, lo % Half)

\* the signed value of a 32-bit word
ToInt32(a) ==
  IF a.hi >= Half \div 2
    THEN (a.hi - Half) * Half + a.lo
    ELSE a.hi * Half + a.lo

\* hash = ((hash << 5) - hash) + name.charCodeAt(i); hash = hash & hash;
HashStep(h, c) == U32Add(U32Add(U32Shl5(h), U32Neg(h)), U32Of(c))

\* the loop over the code units.  h.hi >= 0 holds of every word: the test
\* makes the word be evaluated at each round, so that a long name does not
\* build one deeply nested expression
RECURSIVE HashFrom(_, _)
HashFrom(h, s) ==
  IF h.hi >= 0 /\ s # <<>> THEN HashFrom(HashStep(h, Head(s)), Tail(s)) ELSE h

Hash(name) == ToInt32(HashFrom(U32(0, 0), name))

PaletteLength == 12

\* an absolute value taken in 32-bit integers, where abs(-2^31) is -2^31,
\* followed by the remainder operator, whose result has the dividend's sign
AbsModInt32(h, n) ==
  IF h >= 0 THEN h % n
  ELSE IF h = -2147483647 - 1 THEN 0 - (((2147483647 % n) + 1) % n)
  ELSE (0 - h) % n

\* Math.abs(hash) % palette.length; Math.abs works on doubles, so
\* abs(-2^31) is 2^31
AbsMod(h, n) ==
  IF h >= 0 THEN h % n
  ELSE IF h = -2147483647 - 1 THEN ((2147483647 % n) + 1) % n
  ELSE (0 - h) % n

\* the palette entry is identified by its index
GenerateTagColor(name) == AbsMod(Hash(name), PaletteLength)

(* ------------------------------ inputs -------------------------------- *)

\* TaskStatus (contracts/types.ts), TASK_STATUSES (validators)
TaskStatuses == {"new", "approved", "in-progress", "complete"}

\* the statuses the moveTask calls ask for
MoveStatuses == {"complete", "in-progress"}

\* tag names as callers write them, in code units: "A", "a", " A " and "b"
NameA == <<65>>
Namea == <<97>>
NameSpA == <<32, 65, 32>>
Nameb == <<98>>

\* " ", a name that normalizes to the empty string
NameBlank == <<32>>

\* the tagNames arrays handed to ensureTagsExist before the tags are listed
ListedTagLists == {<<Nameb, NameA>>, <<Namea>>, <<NameBlank>>}

\* the tagNames arrays handed to ensureTagsExist
TagLists == {<<NameA, Namea>>, <<NameSpA>>}

MinimalRequest == [title |-> "A", description |-> "B", model_strategy |-> "mixed"]

\* CreateTaskRequest bodies
CreateRequests ==
  { MinimalRequest,
    [title |-> "A", description |-> "B", model_strategy |-> "mixed",
     estimated_token_cost |-> 5, estimated_dollar_cost |-> 1,
     assignee |-> "rufus", tags |-> <<NameA, Namea>>] }

\* UpdateTaskRequest bodies (partial)
UpdateRequests ==
  { [title |-> "C"],
    [title |-> "C", status |-> "approved"],
    [tags |-> <<Nameb>>, assignee |-> "james", estimated_token_cost |-> 7] }

\* an argument that is not passed (undefined)
Undefined == "<undefined>"

\* the assignee arguments of getAllTasks: undefined, null, or a TaskAssignee
AssigneeFilters == {Undefined, Null, "rufus", "james"}

\* the tag arguments of getAllTasks: undefined (no element), "" or "a"
TagFilters == {{}, {<<>>}, {Namea}}

\* CreateTaskRequest bodies for the listings: no assignee and no tags,
\* rufus with the tag "a", james with the tag " "
ListCreateRequests ==
  { MinimalRequest,
    [title |-> "A", description |-> "B", model_strategy |-> "mixed",
     assignee |-> "rufus", tags |-> <<Namea>>],
    [title |-> "A", description |-> "B", model_strategy |-> "mixed",
     assignee |-> "james", tags |-> <<NameBlank>>] }

\* the patches { status } of the statuses moveTask is called with
StatusPatches == {[status |-> status] : status \in MoveStatuses}

(* ------------------------------- state -------------------------------- *)

VARIABLES
  tasks,    \* table tasks: id -> row, for the ids that have a row
  tags,     \* table tags: its rows, in insertion order
  clock,    \* what new Date() returns
  nextId,   \* the next id nanoid() hands out
  started,  \* calls started so far
  call,     \* per worker: the call it runs and where it stands
  file,     \* the parsed content of the data file tasks.json
  lock      \* the workers holding the lock on the data file

vars == <<tasks, tags, clock, nextId, started, call, file, lock>>

Idle == [op |-> "none", pc |-> "idle"]

Init ==
  /\ tasks = <<>>
  /\ tags = <<>>
  /\ clock = 0
  /\ nextId = 1
  /\ started = 0
  /\ call = [p \in Procs |-> Idle]
  /\ file = [tasks |-> <<>>]
  /\ lock = {}

(* ------------------------------- store -------------------------------- *)

\* { ...a, ...b }
Spread(a, b) ==
  [f \in DOMAIN a \cup DOMAIN b |-> IF f \in DOMAIN b THEN b[f] ELSE a[f]]

\* .single(): the row when exactly one row matches, else no data
\* (error PGRST116); data is a set holding at most one row
Single(tbl, matching) ==
  IF Cardinality(matching) = 1 THEN {tbl[i] : i \in matching} ELSE {}

\* from('tasks').select('*').eq('id', id).single()
SelectTask(tbl, id) == Single(tbl, DOMAIN tbl \cap {id})

\* a lookup that never matches
SelectTagMiss(tbl, name) == {}

\* from('tags').select('*').eq('name', name).single()
SelectTag(tbl, name) == Single(tbl, {i \in DOMAIN tbl : tbl[i].name = name})

\* tags.name is UNIQUE: an insert of a present name fails with 23505
UniqueViolation(tbl, name) == \E i \in DOMAIN tbl : tbl[i].name = name

\* an insert written as a replacement of the table
ReplaceTagRows(tbl, row) == <<row>>

\* from('tags').insert(newTag)
InsertTagRow(tbl, row) == Append(tbl, row)

\* from('tasks').insert(task)
InsertTaskRow(tbl, task) == (task.id :> task) @@ tbl

\* an update written as an upsert
UpsertTaskRow(tbl, id, updates) ==
  IF id \in DOMAIN tbl
    THEN [i \in DOMAIN tbl |-> IF i = id THEN Spread(tbl[i], updates) ELSE tbl[i]]
    ELSE (id :> Spread([id |-> id], updates)) @@ tbl

\* an update under which the values already in the row win
UpdateTaskRowFirstWins(tbl, id, updates) ==
  [i \in DOMAIN tbl |-> IF i = id THEN Spread(updates, tbl[i]) ELSE tbl[i]]

\* from('tasks').update(updates).eq('id', id)
UpdateTaskRow(tbl, id, updates) ==
  [i \in DOMAIN tbl |-> IF i = id THEN Spread(tbl[i], updates) ELSE tbl[i]]

\* a delete without its filter on the id
DeleteAllTaskRows(tbl, id) == <<>>

\* from('tasks').delete().eq('id', id)
DeleteTaskRow(tbl, id) == [i \in DOMAIN tbl \ {id} |-> tbl[i]]

\* the count a delete() answers with: the code passes no count option to
\* delete(), so the answer carries no count (null, the empty set here)
DeleteCount(tbl, id) == {}

\* count ?? 0
Coalesce(v, d) == IF v = {} THEN d ELSE CHOOSE x \in v : TRUE

\* storage.readData(): every row of tasks.  The rows come ordered by
\* created_at, newest first; the listing is kept as the set of its rows,
\* the order among rows of equal created_at being the store's choice.
ReadData(tbl) == {tbl[i] : i \in DOMAIN tbl}

(* ----------------------------- results -------------------------------- *)

TaskResult(row) == [kind |-> "task", task |-> row]
NullResult == [kind |-> "null"]
BoolResult(b) == [kind |-> "bool", value |-> b]
NamesResult(names) == [kind |-> "names", names |-> names]
ErrorResult(msg) == [kind |-> "error", message |-> msg]
TasksResult(rows) == [kind |-> "tasks", tasks |-> rows]

(* --------------------------- task service ----------------------------- *)

\* request.f || d
OrDefault(request, f, d, falsy) ==
  IF f \in DOMAIN request /\ request[f] \notin falsy THEN request[f] ELSE d

\* a newTask literal that stamps completed_at like the other two dates
NewTaskStamped(id, request, tagNames, now) ==
  [ id |-> id,
    title |-> request.title,
    description |-> request.description,
    model_strategy |-> request.model_strategy,
    estimated_token_cost |-> IF "estimated_token_cost" \in DOMAIN request
                               THEN request.estimated_token_cost ELSE 0,
    estimated_dollar_cost |-> IF "estimated_dollar_cost" \in DOMAIN request
                                THEN request.estimated_dollar_cost ELSE 0,
    status |-> "new",
    assignee |-> IF "assignee" \in DOMAIN request THEN request.assignee ELSE Null,
    tags |-> tagNames,
    created_at |-> now,
    updated_at |-> now,
    completed_at |-> now,
    llm_usage |-> <<>> ]

\* createTask: the newTask literal
NewTask(id, request, tagNames, now) ==
  [ id |-> id,
    title |-> request.title,
    description |-> request.description,
    model_strategy |-> request.model_strategy,
    estimated_token_cost |-> OrDefault(request, "estimated_token_cost", 0, {0}),
    estimated_dollar_cost |-> OrDefault(request, "estimated_dollar_cost", 0, {0}),
    status |-> "new",
    assignee |-> OrDefault(request, "assignee", Null, {Null, ""}),
    tags |-> tagNames,
    created_at |-> now,
    updated_at |-> now,
    completed_at |-> NoTime,
    llm_usage |-> <<>> ]

\* a completion that is only seen when the task was in progress
BecomesCompleteFromInProgress(request, existingTask) ==
  /\ "status" \in DOMAIN request
  /\ request.status = "complete"
  /\ existingTask.status = "in-progress"

\* a completion seen in every request for 'complete', whatever the task's
\* status was
RequestsComplete(request, existingTask) ==
  /\ "status" \in DOMAIN request
  /\ request.status = "complete"

\* request.status === 'complete' && existingTask.status !== 'complete'
BecomesComplete(request, existingTask) ==
  /\ "status" \in DOMAIN request
  /\ request.status = "complete"
  /\ existingTask.status # "complete"

\* updates whose tags fall back to [] as in createTask
UpdatesDefaultTags(request, existingTask, tagNames, now) ==
  LET base == Spread(request,
                     [tags |-> IF "tags" \in DOMAIN request THEN tagNames ELSE <<>>,
                      updated_at |-> now])
  IN  IF BecomesComplete(request, existingTask)
        THEN Spread(base, [completed_at |-> now])
        ELSE base

\* updates that carry no updated_at
UpdatesUnstamped(request, existingTask, tagNames, now) ==
  LET base == Spread(request, [tags |-> tagNames])
  IN  IF BecomesComplete(request, existingTask)
        THEN Spread(base, [completed_at |-> now])
        ELSE base

\* updateTask: the updates object, and what updateTaskById adds to it
Updates(request, existingTask, tagNames, now) ==
  LET base == Spread(request, [tags |-> tagNames, updated_at |-> now])
      stamped == IF BecomesComplete(request, existingTask)
                   THEN Spread(base, [completed_at |-> now])
                   ELSE base
  IN  Spread(stamped, [updated_at |-> now])

\* the elements of an array
Elements(seq) == {seq[i] : i \in DOMAIN seq}

\* a tag filter applied whenever a tag is passed, the empty string included
FilterEveryTag(rows, assignee, tag) ==
  LET byAssignee == IF assignee # Undefined
                      THEN {t \in rows : t.assignee = assignee}
                      ELSE rows
  IN  IF tag # {}
        THEN {t \in byAssignee : \E name \in tag : name \in Elements(t.tags)}
        ELSE byAssignee

\* getAllTasks: the two filters; `if (tag)` is false for undefined and
\* for the empty string
FilterTasks(rows, assignee, tag) ==
  LET byAssignee == IF assignee # Undefined
                      THEN {t \in rows : t.assignee = assignee}
                      ELSE rows
  IN  IF tag # {} /\ tag # {<<>>}
        THEN {t \in byAssignee : \E name \in tag : name \in Elements(t.tags)}
        ELSE byAssignee

(* ------------------------------ calls --------------------------------- *)

Running(p) == call[p].pc \notin {"idle", "done"}

CanStart(p) == ~Running(p) /\ started < MaxOps

\* the call returns (or throws): its frame is kept for inspection until
\* the worker starts its next call
Return(p, result) ==
  call' = [call EXCEPT ![p] = Spread(call[p], [pc |-> "done", result |-> result])]

\* the record r without the fields fs
Without(r, fs) == [f \in DOMAIN r \ fs |-> r[f]]

\* The caller runs on after tag resolution has pushed a name: the loop of
\* ensureTagsExist takes the next name (a new getOrCreateTag frame, which
\* sends its select), or the loop is over and createTask / updateTask builds
\* its row and sends the write.  c is the caller's frame, with names (left
\* to resolve) and normalized.
Resume(p, c) ==
  IF c.names # <<>>
    THEN call' = [call EXCEPT ![p] =
                    Spread(Without(c, {"newTag", "error"}), [pc |-> "tag_select"])]
    ELSE CASE c.op = "createTask" ->
                call' = [call EXCEPT ![p] =
                           Spread(c, [pc |-> "insert",
                                      task |-> NewTask(c.id, c.request,
                                                       c.normalized, clock)])]
           [] c.op \in {"updateTask", "moveTask"} ->
                call' = [call EXCEPT ![p] =
                           Spread(c, [pc |-> "update",
                                      updates |-> Updates(c.request, c.existingTask,
                                                          c.normalized, clock)])]
           [] OTHER ->
                call' = [call EXCEPT ![p] =
                           Spread(c, [pc |-> "done",
                                      result |-> NamesResult(c.normalized)])]

\* the requested names stored as they are, without resolution
SkipResolveTags(p, c, fallback) ==
  Resume(p, Spread(c, [names |-> <<>>,
                       normalized |-> IF "tags" \in DOMAIN c.request
                                        THEN c.request.tags ELSE fallback]))

\* request.tags ? await ensureTagsExist(request.tags) : fallback
ResolveTags(p, c, fallback) ==
  IF "tags" \in DOMAIN c.request
    THEN Resume(p, Spread(c, [names |-> c.request.tags, normalized |-> <<>>]))
    ELSE Resume(p, Spread(c, [names |-> <<>>, normalized |-> fallback]))

\* createTask(request); the id is drawn here, nanoid() being independent of
\* everything else
StartCreateFrom(p, requests) ==
  /\ CanStart(p)
  /\ nextId <= MaxTasks
  /\ \E request \in requests :
       ResolveTags(p, [op |-> "createTask", id |-> nextId, request |-> request], <<>>)
  /\ nextId' = nextId + 1
  /\ started' = started + 1
  /\ UNCHANGED <<tasks, tags, clock, file, lock>>

StartCreate(p) == StartCreateFrom(p, CreateRequests)

\* updateTask(id, request): sends storage.getTaskById(id)
StartUpdateFrom(p, requests) ==
  /\ CanStart(p)
  /\ \E id \in TaskIds, request \in requests :
       call' = [call EXCEPT ![p] =
                  [op |-> "updateTask", pc |-> "get", id |-> id, request |-> request]]
  /\ started' = started + 1
  /\ UNCHANGED <<tasks, tags, clock, nextId, file, lock>>

StartUpdate(p) == StartUpdateFrom(p, UpdateRequests)

\* a moveTask that sends the status to storage.updateTaskById itself
StartMoveDirect(p) ==
  /\ CanStart(p)
  /\ \E id \in TaskIds, status \in MoveStatuses :
       call' = [call EXCEPT ![p] =
                  [op |-> "moveTask", pc |-> "update", id |-> id,
                   request |-> [status |-> status],
                   updates |-> [status |-> status, updated_at |-> clock]]]
  /\ started' = started + 1
  /\ UNCHANGED <<tasks, tags, clock, nextId, file, lock>>

\* moveTask(id, status): updateTask(id, { status })
StartMove(p) ==
  /\ CanStart(p)
  /\ \E id \in TaskIds, status \in MoveStatuses :
       call' = [call EXCEPT ![p] =
                  [op |-> "moveTask", pc |-> "get", id |-> id,
                   request |-> [status |-> status]]]
  /\ started' = started + 1
  /\ UNCHANGED <<tasks, tags, clock, nextId, file, lock>>

\* deleteTask(id): sends storage.deleteTaskById(id)
StartDelete(p) ==
  /\ CanStart(p)
  /\ \E id \in TaskIds :
       call' = [call EXCEPT ![p] = [op |-> "deleteTask", pc |-> "delete", id |-> id]]
  /\ started' = started + 1
  /\ UNCHANGED <<tasks, tags, clock, nextId, file, lock>>

\* getTaskById(id)
StartGet(p) ==
  /\ CanStart(p)
  /\ \E id \in TaskIds :
       call' = [call EXCEPT ![p] = [op |-> "getTaskById", pc |-> "get", id |-> id]]
  /\ started' = started + 1
  /\ UNCHANGED <<tasks, tags, clock, nextId, file, lock>>

\* ensureTagsExist(tagNames), called on its own
StartEnsureTagsFrom(p, lists) ==
  /\ CanStart(p)
  /\ \E tagNames \in lists :
       Resume(p, [op |-> "ensureTagsExist", tagNames |-> tagNames,
                  names |-> tagNames, normalized |-> <<>>])
  /\ started' = started + 1
  /\ UNCHANGED <<tasks, tags, clock, nextId, file, lock>>

StartEnsureTags(p) == StartEnsureTagsFrom(p, TagLists)

\* an updateTask that resolves the patch's tags before it looks at what
\* storage.getTaskById answered
GetTaskByIdTagsFirst(p) ==
  /\ call[p].pc = "get"
  /\ LET data == SelectTask(tasks, call[p].id)
     IN  IF call[p].op = "getTaskById"
           THEN Return(p, IF data = {} THEN NullResult
                          ELSE TaskResult(CHOOSE t \in data : TRUE))
         ELSE IF data = {}
           THEN IF "tags" \in DOMAIN call[p].request
                  THEN Resume(p, [op |-> "ensureTagsExist", tagNames |-> call[p].request.tags,
                                  names |-> call[p].request.tags, normalized |-> <<>>])
                  ELSE Return(p, NullResult)
         ELSE LET existingTask == CHOOSE t \in data : TRUE
              IN  ResolveTags(p, Spread(call[p], [existingTask |-> existingTask]),
                              existingTask.tags)
  /\ UNCHANGED <<tasks, tags, clock, nextId, started, file, lock>>

\* storage.getTaskById answers
GetTaskById(p) ==
  /\ call[p].pc = "get"
  /\ LET data == SelectTask(tasks, call[p].id)
     IN  IF call[p].op = "getTaskById"
           THEN Return(p, IF data = {} THEN NullResult
                          ELSE TaskResult(CHOOSE t \in data : TRUE))
         ELSE IF data = {}
           THEN Return(p, NullResult)
         ELSE LET existingTask == CHOOSE t \in data : TRUE
              IN  ResolveTags(p, Spread(call[p], [existingTask |-> existingTask]),
                              existingTask.tags)
  /\ UNCHANGED <<tasks, tags, clock, nextId, started, file, lock>>

\* normalized.push(tag.name)
Push(c, tag) ==
  Spread(c, [names |-> Tail(c.names), normalized |-> Append(c.normalized, tag.name),
             tag |-> tag])

\* getOrCreateTag: the select for the existing tag answers
TagSelect(p) ==
  /\ call[p].pc = "tag_select"
  /\ LET normalizedName == Normalize(Head(call[p].names))
         existing == SelectTag(tags, normalizedName)
     IN  IF existing # {}
           THEN Resume(p, Push(call[p], CHOOSE t \in existing : TRUE))
           ELSE call' = [call EXCEPT ![p] =
                           Spread(call[p],
                                  [pc |-> "tag_insert",
                                   newTag |-> [name |-> normalizedName,
                                               color |-> GenerateTagColor(normalizedName)]])]
  /\ UNCHANGED <<tasks, tags, clock, nextId, started, file, lock>>

\* Postgres error code of a unique violation
UniqueViolationCode == "23505"

\* Postgres error code of a foreign key violation
ForeignKeyViolationCode == "23503"

\* the error an insert into tags answers with, if any
InsertTagError(tbl, row) ==
  IF UniqueViolation(tbl, row.name) THEN {[code |-> UniqueViolationCode]} ELSE {}

IsForeignKeyViolation(error) == error.code = ForeignKeyViolationCode

\* error.code === '23505'
IsUniqueViolation(error) == error.code = UniqueViolationCode

\* getOrCreateTag: the insert answers
TagInsert(p) ==
  /\ call[p].pc = "tag_insert"
  /\ LET failed == InsertTagError(tags, call[p].newTag)
     IN  IF failed # {}
           THEN LET error == CHOOSE e \in failed : TRUE
                IN  /\ IF IsUniqueViolation(error)
                         THEN call' = [call EXCEPT ![p] =
                                         Spread(call[p], [pc |-> "tag_retry",
                                                          error |-> error])]
                         ELSE call' = [call EXCEPT ![p] =
                                         Spread(call[p],
                                                [pc |-> "done", error |-> error,
                                                 result |-> ErrorResult("Failed to create tag")])]
                    /\ UNCHANGED tags
           ELSE /\ tags' = InsertTagRow(tags, call[p].newTag)
                /\ Resume(p, Push(call[p], call[p].newTag))
  /\ UNCHANGED <<tasks, clock, nextId, started, file, lock>>

\* getOrCreateTag: the re-read after a unique violation answers
TagRetry(p) ==
  /\ call[p].pc = "tag_retry"
  /\ LET existing == SelectTag(tags, call[p].newTag.name)
     IN  IF existing # {}
           THEN Resume(p, Push(call[p], CHOOSE t \in existing : TRUE))
           ELSE Return(p, ErrorResult("Failed to create tag"))
  /\ UNCHANGED <<tasks, tags, clock, nextId, started, file, lock>>

\* storage.insertTask answers
InsertTask(p) ==
  /\ call[p].pc = "insert"
  /\ tasks' = InsertTaskRow(tasks, call[p].task)
  /\ Return(p, TaskResult(tasks'[call[p].id]))
  /\ UNCHANGED <<tags, clock, nextId, started, file, lock>>

\* storage.updateTaskById answers
UpdateTaskById(p) ==
  /\ call[p].pc = "update"
  /\ tasks' = UpdateTaskRow(tasks, call[p].id, call[p].updates)
  /\ LET data == SelectTask(tasks', call[p].id)
     IN  Return(p, IF data = {} THEN NullResult
                    ELSE TaskResult(CHOOSE t \in data : TRUE))
  /\ UNCHANGED <<tags, clock, nextId, started, file, lock>>

\* storage.deleteTaskById answers
DeleteTaskById(p) ==
  /\ call[p].pc = "delete"
  /\ tasks' = DeleteTaskRow(tasks, call[p].id)
  /\ Return(p, BoolResult(Coalesce(DeleteCount(tasks, call[p].id), 0) > 0))
  /\ UNCHANGED <<tags, clock, nextId, started, file, lock>>

(* --------------------------- store faults ----------------------------- *)

\* Postgres error code of a connection failure
ConnectionFailureCode == "08006"

\* PostgREST error code of .single() finding no row
NoRowsCode == "PGRST116"

\* the error of a request the store could not serve: one that is neither a
\* unique violation nor a missing row
StoreFault == [code |-> ConnectionFailureCode]

\* the requests of the call that the store answered with StoreFault
FailedRequests(c) == IF "failed" \in DOMAIN c THEN c.failed ELSE {}

\* the frame c, its pending request answered with StoreFault
Faulted(c) == Spread(c, [failed |-> FailedRequests(c) \cup {c.pc}])

\* an error answer that is dropped: the call returns no data
Swallow(p, c, msg) ==
  call' = [call EXCEPT ![p] = Spread(c, [pc |-> "done", result |-> NullResult])]

\* if (error) { throw new Error(msg) }: nothing up to the caller of the
\* service catches it
Throw(p, c, msg) ==
  call' = [call EXCEPT ![p] = Spread(c, [pc |-> "done", result |-> ErrorResult(msg)])]

\* getOrCreateTag: the select for the existing tag fails.  Only data is
\* taken from the answer (const { data: existing }), and it is null, so
\* the call goes on to the insert.
TagSelectFails(p) ==
  /\ call[p].pc = "tag_select"
  /\ LET normalizedName == Normalize(Head(call[p].names))
     IN  call' = [call EXCEPT ![p] =
                    Spread(Faulted(call[p]),
                           [pc |-> "tag_insert",
                            newTag |-> [name |-> normalizedName,
                                        color |-> GenerateTagColor(normalizedName)]])]
  /\ UNCHANGED <<tasks, tags, clock, nextId, started, file, lock>>

\* getOrCreateTag: the insert fails with an error that is no unique violation
TagInsertFails(p) ==
  /\ call[p].pc = "tag_insert"
  /\ LET error == StoreFault
         c == Spread(Faulted(call[p]), [error |-> error])
     IN  IF IsUniqueViolation(error)
           THEN call' = [call EXCEPT ![p] = Spread(c, [pc |-> "tag_retry"])]
           ELSE Throw(p, c, "Failed to create tag")
  /\ UNCHANGED <<tasks, tags, clock, nextId, started, file, lock>>

\* getOrCreateTag: the re-read after a unique violation fails: no data, so
\* the error of the insert is thrown
TagRetryFails(p) ==
  /\ call[p].pc = "tag_retry"
  /\ Throw(p, Faulted(call[p]), "Failed to create tag")
  /\ UNCHANGED <<tasks, tags, clock, nextId, started, file, lock>>

\* storage.insertTask: the insert fails
InsertTaskFails(p) ==
  /\ call[p].pc = "insert"
  /\ Throw(p, Faulted(call[p]), "Failed to insert task")
  /\ UNCHANGED <<tasks, tags, clock, nextId, started, file, lock>>

\* storage.updateTaskById: the update fails
UpdateTaskFails(p) ==
  /\ call[p].pc = "update"
  /\ LET error == StoreFault
     IN  IF error.code = NoRowsCode
           THEN Return(p, NullResult)
           ELSE Throw(p, Faulted(call[p]), "Failed to update task")
  /\ UNCHANGED <<tasks, tags, clock, nextId, started, file, lock>>

(* ------------------------------- listing ------------------------------ *)

\* getAllTasks(assignee, tag): sends storage.readData()
StartGetAllTasks(p) ==
  /\ CanStart(p)
  /\ \E assignee \in AssigneeFilters, tag \in TagFilters :
       call' = [call EXCEPT ![p] = [op |-> "getAllTasks", pc |-> "read",
                                    assignee |-> assignee, tag |-> tag]]
  /\ started' = started + 1
  /\ UNCHANGED <<tasks, tags, clock, nextId, file, lock>>

\* storage.readData answers
GetAllTasks(p) ==
  /\ call[p].pc = "read"
  /\ Return(p, TasksResult(FilterTasks(ReadData(tasks), call[p].assignee, call[p].tag)))
  /\ UNCHANGED <<tasks, tags, clock, nextId, started, file, lock>>

(* ----------------------------- tag listing --------------------------- *)

TagsResult(rows) == [kind |-> "tags", tags |-> rows]

\* the name a sorts before the name b.  Names are compared code unit by
\* code unit; the collation of the database decides where it differs.
RECURSIVE NameBefore(_, _)
NameBefore(a, b) ==
  IF b = <<>> THEN FALSE
  ELSE IF a = <<>> THEN TRUE
  ELSE IF Head(a) # Head(b) THEN Head(a) < Head(b)
  ELSE NameBefore(Tail(a), Tail(b))

\* a listing in the order the rows were inserted
InsertionOrder(tbl) == tbl

\* from('tags').select('name, color').order('name'): the rows by ascending
\* name (names are unique in the table)
RECURSIVE OrderByName(_)
OrderByName(tbl) ==
  IF tbl = <<>> THEN <<>>
  ELSE LET first == CHOOSE i \in DOMAIN tbl :
                      \A j \in DOMAIN tbl \ {i} : NameBefore(tbl[i].name, tbl[j].name)
           rest == [k \in 1..(Len(tbl) - 1) |-> IF k < first THEN tbl[k] ELSE tbl[k + 1]]
       IN  <<[name |-> tbl[first].name, color |-> tbl[first].color]>> \o OrderByName(rest)

\* getAllTags(): sends the select
StartGetAllTags(p) ==
  /\ CanStart(p)
  /\ call' = [call EXCEPT ![p] = [op |-> "getAllTags", pc |-> "tag_list"]]
  /\ started' = started + 1
  /\ UNCHANGED <<tasks, tags, clock, nextId, file, lock>>

\* getAllTags: the select answers; return data || []
GetAllTags(p) ==
  /\ call[p].pc = "tag_list"
  /\ Return(p, TagsResult(OrderByName(tags)))
  /\ UNCHANGED <<tasks, tags, clock, nextId, started, file, lock>>

(* ---------------------- file-based tag registry ----------------------- *)

\* lockfile.lock(TASKS_FILE, { retries: { retries: 5, ... } })
LockRetries == 5

\* the names the file-based getOrCreateTag is called with: "b", "A", " A "
FileNames == {Nameb, NameA, NameSpA}

\* const normalizedName = name.trim().toLowerCase();
FileNormalize(name) ==
  LET t == Trim(name) IN [i \in 1..Len(t) |-> ToLowerCase(t[i])]

\* data.tags, a Record<string, Tag> kept as its values in the order the
\* keys were added; if (!data.tags) { data.tags = {} }
FileTags(data) == IF "tags" \in DOMAIN data THEN data.tags ELSE <<>>

\* data.tags[name]: no element when the key is absent
FileTag(data, name) ==
  {FileTags(data)[i] : i \in {j \in DOMAIN FileTags(data) : FileTags(data)[j].name = name}}

\* data.tags[tag.name] = tag
SetFileTag(data, tag) ==
  LET rows == FileTags(data)
  IN  Spread(data,
             [tags |-> IF \E i \in DOMAIN rows : rows[i].name = tag.name
                         THEN [i \in DOMAIN rows |->
                                 IF rows[i].name = tag.name THEN tag ELSE rows[i]]
                         ELSE Append(rows, tag)])

\* Object.values(data.tags): the values in the order their keys were added
\* (the names used here are not integer-like keys)
ObjectValues(rows) == rows

TagResult(tag) == [kind |-> "tag", tag |-> tag]

\* a lock that is granted whoever holds it
LockAlwaysFree(holders) == TRUE

\* lockfile.lock succeeds when nobody holds the lock
LockFree(holders) == holders = {}

\* the callback of withLock is running in the frame c
InCallback(c) == c.pc \in {"file_read", "file_write"}

\* getOrCreateTag(name): withLock(...) asks for the lock
StartFileGetOrCreateTag(p) ==
  /\ CanStart(p)
  /\ \E name \in FileNames :
       call' = [call EXCEPT ![p] = [op |-> "getOrCreateTag", pc |-> "lock",
                                    name |-> name, attempts |-> 0]]
  /\ started' = started + 1
  /\ UNCHANGED <<tasks, tags, clock, nextId, file, lock>>

\* withLock: the lock is granted and fn() starts: it sends readData()
LockGranted(p) ==
  /\ call[p].pc = "lock"
  /\ LockFree(lock)
  /\ lock' = lock \cup {p}
  /\ call' = [call EXCEPT ![p] = Spread(call[p], [pc |-> "file_read"])]
  /\ UNCHANGED <<tasks, tags, clock, nextId, started, file>>

\* withLock: the lock is held by another caller; lockfile.lock tries again,
\* and after the last retry it fails and withLock throws, fn() never started
LockRefused(p) ==
  /\ call[p].pc = "lock"
  /\ ~LockFree(lock)
  /\ IF call[p].attempts < LockRetries
       THEN call' = [call EXCEPT ![p] =
                       Spread(call[p], [attempts |-> call[p].attempts + 1])]
       ELSE Return(p, ErrorResult("Lock file is already being held"))
  /\ UNCHANGED <<tasks, tags, clock, nextId, started, file, lock>>

\* getOrCreateTag, in the callback: readData answers.  An existing tag is
\* returned; otherwise the new tag is put into data and writeData(data) is
\* sent.  What fn() returns is kept until the lock is released.
FileRead(p) ==
  /\ call[p].pc = "file_read"
  /\ LET data == file
         normalizedName == FileNormalize(call[p].name)
         existing == FileTag(data, normalizedName)
         newTag == [name |-> normalizedName, color |-> GenerateTagColor(normalizedName)]
     IN  IF existing # {}
           THEN call' = [call EXCEPT ![p] =
                           Spread(call[p], [pc |-> "release",
                                            outcome |-> TagResult(CHOOSE t \in existing : TRUE)])]
           ELSE call' = [call EXCEPT ![p] =
                           Spread(call[p], [pc |-> "file_write",
                                            data |-> SetFileTag(data, newTag),
                                            newTag |-> newTag])]
  /\ UNCHANGED <<tasks, tags, clock, nextId, started, file, lock>>

\* getOrCreateTag, in the callback: writeData answers; return newTag
FileWrite(p) ==
  /\ call[p].pc = "file_write"
  /\ file' = call[p].data
  /\ call' = [call EXCEPT ![p] =
                Spread(call[p], [pc |-> "release", outcome |-> TagResult(call[p].newTag)])]
  /\ UNCHANGED <<tasks, tags, clock, nextId, started, lock>>

\* the callback throws: readData or writeData fails
FileFails(p) ==
  /\ InCallback(call[p])
  /\ call' = [call EXCEPT ![p] =
                Spread(call[p], [pc |-> "release", threw |-> call[p].pc,
                                 outcome |-> ErrorResult("file access failed")])]
  /\ UNCHANGED <<tasks, tags, clock, nextId, started, file, lock>>

\* withLock: finally { await release() }; then the callback's result is
\* returned, or what it threw is thrown on
Release(p) ==
  /\ call[p].pc = "release"
  /\ lock' = lock \ {p}
  /\ Return(p, call[p].outcome)
  /\ UNCHANGED <<tasks, tags, clock, nextId, started, file>>

\* the file-based getAllTags(): sends readData(), without the lock
StartFileGetAllTags(p) ==
  /\ CanStart(p)
  /\ call' = [call EXCEPT ![p] = [op |-> "getAllTags", pc |-> "file_list"]]
  /\ started' = started + 1
  /\ UNCHANGED <<tasks, tags, clock, nextId, file, lock>>

\* the file-based getAllTags: readData answers
FileGetAllTags(p) ==
  /\ call[p].pc = "file_list"
  /\ Return(p, TagsResult(IF "tags" \in DOMAIN file
                            THEN ObjectValues(file.tags) ELSE <<>>))
  /\ UNCHANGED <<tasks, tags, clock, nextId, started, file, lock>>

(* ----------------------------- HTTP layer ----------------------------- *)

\* MODEL_STRATEGIES (validators)
ModelStrategies == {"opus-planning", "opus-coding", "sonnet-coding", "mixed"}

\* isLength({ min: 1, max: 200 }) of title
MaxTitleLength == 200

\* isLength({ min: 1, max: 10000 }) of description
MaxDescriptionLength == 10000

\* a string of n letters "x"
Letters(n) == [i \in 1..n |-> 120]

\* request bodies of POST /api/tasks.  Strings are in code units: titles
\* "A", 200 letters, " ", 201 letters; descriptions "B" and 10001 letters.
CreateBodies ==
  { [title |-> <<65>>, description |-> <<66>>, model_strategy |-> "mixed"],
    [title |-> Letters(MaxTitleLength), description |-> <<66>>,
     model_strategy |-> "mixed", estimated_token_cost |-> 0],
    [title |-> <<32>>, description |-> <<66>>, model_strategy |-> "mixed"],
    [title |-> Letters(MaxTitleLength + 1), description |-> <<66>>,
     model_strategy |-> "mixed"],
    [title |-> <<65>>, description |-> Letters(MaxDescriptionLength + 1),
     model_strategy |-> "mixed"],
    [title |-> <<65>>, description |-> <<66>>, model_strategy |-> "gpt"],
    [title |-> <<65>>, description |-> <<66>>, model_strategy |-> "mixed",
     estimated_token_cost |-> -1],
    [title |-> <<65>>, description |-> <<66>>, model_strategy |-> "mixed",
     estimated_dollar_cost |-> -1] }

\* request bodies of PATCH /api/tasks/:id
UpdateBodies ==
  { [title |-> <<32, 67, 32>>],
    [status |-> "complete"],
    [status |-> "done"],
    [title |-> <<>>],
    [title |-> Letters(MaxTitleLength + 1)],
    [description |-> Letters(MaxDescriptionLength + 1)],
    [model_strategy |-> "gpt"],
    [estimated_token_cost |-> -1] }

\* request bodies of POST /api/tasks/:id/move
MoveBodies == { [status |-> "approved"], [status |-> "done"] }

\* a length check that has no upper limit
IsLengthMinOnly(str, min, max) == Len(str) >= min

\* isLength({ min, max })
IsLength(str, min, max) == Len(str) >= min /\ Len(str) <= max

\* isInt({ min }) and isFloat({ min }) on a number
IsMin(v, min) == v >= min

\* the validation chain of the field f, on the value v the body gives it
ValidField(f, v) ==
  CASE f = "title" -> IsLength(Trim(v), 1, MaxTitleLength)
    [] f = "description" -> IsLength(Trim(v), 1, MaxDescriptionLength)
    [] f = "model_strategy" -> v \in ModelStrategies
    [] f = "estimated_token_cost" -> IsMin(v, 0)
    [] f = "estimated_dollar_cost" -> IsMin(v, 0)
    [] f = "status" -> v \in TaskStatuses
    [] OTHER -> TRUE

\* validationResult(req): the fields whose chain failed; a chain without
\* optional() fails on a missing field
ValidationErrors(body, required, optional) ==
  {f \in required : f \notin DOMAIN body \/ ~ValidField(f, body[f])}
    \cup {f \in optional : f \in DOMAIN body /\ ~ValidField(f, body[f])}

CreateTaskValidators(body) ==
  ValidationErrors(body, {"title", "description", "model_strategy"},
                   {"estimated_token_cost", "estimated_dollar_cost"})

UpdateTaskValidators(body) ==
  ValidationErrors(body, {},
                   {"title", "description", "model_strategy",
                    "estimated_token_cost", "estimated_dollar_cost", "status"})

MoveTaskValidators(body) == ValidationErrors(body, {"status"}, {})

\* the trim() sanitizers of title and description write the trimmed value
\* back into req.body
Sanitize(body) ==
  [f \in DOMAIN body |->
     IF f \in {"title", "description"} THEN Trim(body[f]) ELSE body[f]]

InvalidResult == [kind |-> "invalid"]

\* if (!errors.isEmpty()) { res.status(400).json(response); return; }
Reject(p, c) ==
  call' = [call EXCEPT ![p] = Spread(c, [op |-> "none", pc |-> "done",
                                         result |-> InvalidResult])]

\* the status of the response the controller sends for the frame c
HttpStatus(c) ==
  CASE c.result.kind = "invalid" -> 400
    [] c.result.kind = "error" -> 500
    [] c.result.kind = "null" -> 404
    [] OTHER -> IF c.route = "POST /" THEN 201 ELSE 200

\* POST /api/tasks: createTaskValidators, then the controller's createTask
PostTaskFrom(p, bodies) ==
  /\ CanStart(p)
  /\ \E body \in bodies :
       LET c == [route |-> "POST /", body |-> body]
       IN  IF CreateTaskValidators(body) # {}
             THEN Reject(p, c) /\ UNCHANGED nextId
             ELSE /\ nextId <= MaxTasks
                  /\ ResolveTags(p, Spread(c, [op |-> "createTask", id |-> nextId,
                                               request |-> Sanitize(body)]), <<>>)
                  /\ nextId' = nextId + 1
  /\ started' = started + 1
  /\ UNCHANGED <<tasks, tags, clock, file, lock>>

PostTask(p) == PostTaskFrom(p, CreateBodies)

\* PATCH /api/tasks/:id: updateTaskValidators, then the controller's
\* updateTask (the ids sent all pass idParamValidator)
PatchTaskFrom(p, bodies) ==
  /\ CanStart(p)
  /\ \E id \in TaskIds, body \in bodies :
       LET c == [route |-> "PATCH /:id", id |-> id, body |-> body]
       IN  IF UpdateTaskValidators(body) # {}
             THEN Reject(p, c)
             ELSE call' = [call EXCEPT ![p] =
                             Spread(c, [op |-> "updateTask", pc |-> "get",
                                        request |-> Sanitize(body)])]
  /\ started' = started + 1
  /\ UNCHANGED <<tasks, tags, clock, nextId, file, lock>>

PatchTask(p) == PatchTaskFrom(p, UpdateBodies)

\* POST /api/tasks/:id/move: moveTaskValidators, then the controller's
\* moveTask
PostMove(p) ==
  /\ CanStart(p)
  /\ \E id \in TaskIds, body \in MoveBodies :
       LET c == [route |-> "POST /:id/move", id |-> id, body |-> body]
       IN  IF MoveTaskValidators(body) # {}
             THEN Reject(p, c)
             ELSE call' = [call EXCEPT ![p] =
                             Spread(c, [op |-> "moveTask", pc |-> "get",
                                        request |-> [status |-> body.status]])]
  /\ started' = started + 1
  /\ UNCHANGED <<tasks, tags, clock, nextId, file, lock>>

\* the assignee query parameters sent to GET /api/tasks: absent, or the
\* strings 'null', 'rufus', 'james'
AssigneeParams == {Undefined, "null", "rufus", "james"}

\* the tag query parameters sent to GET /api/tasks: absent, or 'a'
TagParams == {{}, {Namea}}

\* listTasks: assigneeParam === 'null' ? null : assigneeParam, when the
\* parameter is present
AssigneeFilter(assigneeParam) ==
  IF assigneeParam # Undefined
    THEN IF assigneeParam = "null" THEN Null ELSE assigneeParam
    ELSE Undefined

\* GET /api/tasks: the controller's listTasks, which reads req.query.assignee
\* only and calls taskService.getAllTasks(assigneeFilter)
GetTasks(p) ==
  /\ CanStart(p)
  /\ \E assigneeParam \in AssigneeParams, tagParam \in TagParams :
       call' = [call EXCEPT ![p] =
                  [op |-> "getAllTasks", pc |-> "read", route |-> "GET /",
                   query |-> [assignee |-> assigneeParam, tag |-> tagParam],
                   assignee |-> AssigneeFilter(assigneeParam), tag |-> {}]]
  /\ started' = started + 1
  /\ UNCHANGED <<tasks, tags, clock, nextId, file, lock>>

\* time passes
Tick ==
  /\ clock < MaxClock
  /\ clock' = clock + 1
  /\ UNCHANGED <<tasks, tags, nextId, started, call, file, lock>>

Step(p) ==
  \/ GetTaskById(p)
  \/ TagSelect(p)
  \/ TagInsert(p)
  \/ TagRetry(p)
  \/ InsertTask(p)
  \/ UpdateTaskById(p)
  \/ DeleteTaskById(p)

Start(p) ==
  \/ StartCreate(p)
  \/ StartUpdate(p)
  \/ StartMove(p)
  \/ StartDelete(p)
  \/ StartGet(p)
  \/ StartEnsureTags(p)

\* request-handling workers run concurrently
Next == Tick \/ \E p \in Procs : Start(p) \/ Step(p)

Spec == Init /\ [][Next]_vars

\* one call at a time: a call starts only when no other call is running
Quiet == \A q \in Procs : ~Running(q)

\* the store answers of a call that runs alone: its insert into tags is
\* never refused (a unique violation needs a concurrent insert of the name
\* between the call's select and its insert), so it never re-reads
SeqStep(p) ==
  \/ GetTaskById(p)
  \/ TagSelect(p)
  \/ TagInsert(p)
  \/ InsertTask(p)
  \/ UpdateTaskById(p)
  \/ DeleteTaskById(p)

SeqNext == Tick \/ \E p \in Procs : (Quiet /\ Start(p)) \/ SeqStep(p)

SeqSpec == Init /\ [][SeqNext]_vars

\* listings among creations, one call at a time
ListNext ==
  \E p \in Procs :
    \/ Quiet /\ StartCreateFrom(p, ListCreateRequests)
    \/ Quiet /\ StartGetAllTasks(p)
    \/ TagSelect(p)
    \/ TagInsert(p)
    \/ InsertTask(p)
    \/ GetAllTasks(p)

ListSpec == Init /\ [][ListNext]_vars

\* calls made one at a time against a store that may fail any request of
\* tag resolution and any task write
FaultNext ==
  \E p \in Procs :
    \/ Quiet /\ StartCreate(p)
    \/ Quiet /\ StartUpdate(p)
    \/ Quiet /\ StartEnsureTags(p)
    \/ GetTaskById(p)
    \/ TagSelect(p)
    \/ TagInsert(p)
    \/ TagRetry(p)
    \/ InsertTask(p)
    \/ UpdateTaskById(p)
    \/ TagSelectFails(p)
    \/ TagInsertFails(p)
    \/ TagRetryFails(p)
    \/ InsertTaskFails(p)
    \/ UpdateTaskFails(p)

FaultSpec == Init /\ [][FaultNext]_vars

\* GET /api/tasks among creations, one call at a time
QueryNext ==
  \E p \in Procs :
    \/ Quiet /\ StartCreateFrom(p, ListCreateRequests)
    \/ Quiet /\ GetTasks(p)
    \/ TagSelect(p)
    \/ TagInsert(p)
    \/ InsertTask(p)
    \/ GetAllTasks(p)

QuerySpec == Init /\ [][QueryNext]_vars

\* HTTP requests handled one at a time
HttpNext ==
  \E p \in Procs :
    \/ Quiet /\ PostTask(p)
    \/ Quiet /\ PatchTask(p)
    \/ Quiet /\ PostMove(p)
    \/ GetTaskById(p)
    \/ InsertTask(p)
    \/ UpdateTaskById(p)

HttpSpec == Init /\ [][HttpNext]_vars

\* moveTask calls and updateTask calls with a patch { status }, on tasks
\* created without tags, by concurrent workers
MoveNext ==
  \/ Tick
  \/ \E p \in Procs :
       \/ StartCreateFrom(p, {MinimalRequest})
       \/ StartMove(p)
       \/ StartUpdateFrom(p, StatusPatches)
       \/ GetTaskById(p)
       \/ InsertTask(p)
       \/ UpdateTaskById(p)

MoveSpec == Init /\ [][MoveNext]_vars

\* tag names whose hash leaves the 32-bit range on the way
\* "polygenelubricants": the hash ends at -2^31
NamePoly == <<112, 111, 108, 121, 103, 101, 110, 101, 108, 117, 98, 114, 105, 99, 97, 110, 116, 115>>

\* " Polygenelubricants"
NamePolyMixed == <<32, 80>> \o Tail(NamePoly)

\* "urgent": the hash ends negative
NameUrgent == <<117, 114, 103, 101, 110, 116>>

\* "documentation": the hash wraps and ends positive
NameDocumentation == <<100, 111, 99, 117, 109, 101, 110, 116, 97, 116, 105, 111, 110>>

ColorTagLists ==
  {<<NamePoly>>, <<NamePolyMixed, NameUrgent>>, <<NameDocumentation>>}

\* tags created with generateTagColor under concurrent workers
ColorNext ==
  \E p \in Procs :
    \/ StartEnsureTagsFrom(p, ColorTagLists)
    \/ TagSelect(p)
    \/ TagInsert(p)
    \/ TagRetry(p)

ColorSpec == Init /\ [][ColorNext]_vars

\* request bodies of POST /api/tasks that carry a status or an assignee
StatusAssigneeCreateBodies ==
  { [title |-> <<65>>, description |-> <<66>>, model_strategy |-> "mixed"],
    [title |-> <<65>>, description |-> <<66>>, model_strategy |-> "mixed",
     assignee |-> "rufus"],
    [title |-> <<65>>, description |-> <<66>>, model_strategy |-> "mixed",
     assignee |-> "bob"],
    [title |-> <<65>>, description |-> <<66>>, model_strategy |-> "mixed",
     status |-> "done"] }

\* request bodies of PATCH /api/tasks/:id that carry a status or an assignee
StatusAssigneeUpdateBodies ==
  { [status |-> "approved"],
    [status |-> "done"],
    [assignee |-> "james"],
    [assignee |-> "bob"] }

\* HTTP requests that carry a status or an assignee, handled one at a time
StatusAssigneeNext ==
  \E p \in Procs :
    \/ Quiet /\ PostTaskFrom(p, StatusAssigneeCreateBodies)
    \/ Quiet /\ PatchTaskFrom(p, StatusAssigneeUpdateBodies)
    \/ GetTaskById(p)
    \/ InsertTask(p)
    \/ UpdateTaskById(p)

StatusAssigneeSpec == Init /\ [][StatusAssigneeNext]_vars

\* the tag registry in the tags table under concurrent workers
TagNext ==
  \E p \in Procs :
    \/ StartEnsureTagsFrom(p, ListedTagLists)
    \/ StartGetAllTags(p)
    \/ TagSelect(p)
    \/ TagInsert(p)
    \/ TagRetry(p)
    \/ GetAllTags(p)

TagSpec == Init /\ [][TagNext]_vars

\* the file-based tag registry under concurrent workers
FileNext ==
  \E p \in Procs :
    \/ StartFileGetOrCreateTag(p)
    \/ StartFileGetAllTags(p)
    \/ LockGranted(p)
    \/ LockRefused(p)
    \/ FileRead(p)
    \/ FileWrite(p)
    \/ FileFails(p)
    \/ Release(p)
    \/ FileGetAllTags(p)

FileSpec == Init /\ [][FileNext]_vars

(* ------------------------------ claims -------------------------------- *)

\* the rows of a table kept as a sequence
Rows(tbl) == {tbl[i] : i \in DOMAIN tbl}

\* worker p's pending store request is answered in this step
Answered(p, pc) == call[p].pc = pc /\ call'[p].pc # pc

\* C1: after any sequence of createTask, updateTask and moveTask calls, each
\* run to completion, every stored task has status 'complete' if and only
\* if its completed_at is not null.
C1_StatusCompletedAtCoupling ==
  \A i \in DOMAIN tasks :
    (tasks[i].status = "complete") <=> (tasks[i].completed_at # NoTime)

\* C2: under any interleaving of concurrent tag resolutions the tags table
\* holds at most one row per name, no call ends in an error (a unique
\* violation is answered by a re-read), and every tag a call has returned
\* is the row of the table for the normalized name.
C2_RacingResolvesOneRow ==
  /\ \A i, j \in DOMAIN tags : tags[i].name = tags[j].name => i = j
  /\ \A p \in Procs :
       /\ call[p].pc = "done" => call[p].result.kind # "error"
       /\ "tag" \in DOMAIN call[p] => call[p].tag \in Rows(tags)
       /\ (call[p].pc = "done" /\ call[p].op = "ensureTagsExist") =>
            /\ Len(call[p].result.names) = Len(call[p].tagNames)
            /\ \A k \in DOMAIN call[p].tagNames :
                 /\ call[p].result.names[k] = Normalize(call[p].tagNames[k])
                 /\ Cardinality({i \in DOMAIN tags :
                                   tags[i].name = call[p].result.names[k]}) = 1

\* two resolutions of the same new name have raced: one of them met the
\* unique violation, and both have returned the one row
C2_Witness ==
  /\ \A p \in Procs : call[p].pc = "done" /\ call[p].op = "ensureTagsExist"
  /\ call[1].result.names = call[2].result.names
  /\ "error" \in DOMAIN call[1] /\ IsUniqueViolation(call[1].error)
  /\ Len(tags) = 1

\* the row i of table tasks is the same after the step as before it
SameRow(i) ==
  /\ (i \in DOMAIN tasks) <=> (i \in DOMAIN tasks')
  /\ i \in DOMAIN tasks => tasks'[i] = tasks[i]

\* C3: concurrent calls addressed to different task ids do not disturb each
\* other: a row changes only in the step that answers a write addressed to
\* its id, and that write has its full effect (the row inserted as built,
\* the updates laid over the row, the row deleted).
C3_DifferentIdsIndependent ==
  [][ /\ \A i \in TaskIds :
           ~SameRow(i) =>
             \E p \in Procs : /\ call[p].pc \in {"insert", "update", "delete"}
                              /\ call'[p].pc = "done"
                              /\ call[p].id = i
      /\ \A p \in Procs :
           /\ Answered(p, "insert") =>
                /\ call[p].id \in DOMAIN tasks'
                /\ tasks'[call[p].id] = call[p].task
           /\ (Answered(p, "update") /\ call[p].id \in DOMAIN tasks) =>
                /\ call[p].id \in DOMAIN tasks'
                /\ tasks'[call[p].id] = Spread(tasks[call[p].id], call[p].updates)
           /\ Answered(p, "delete") => call[p].id \notin DOMAIN tasks'
    ]_vars

\* worker 2's createTask built its row before the clock moved and is still
\* waiting for its insert, while worker 1's updateTask of another id, built
\* after the clock moved, has been written
C3_Witness ==
  /\ call[1].pc = "done" /\ call[1].op = "updateTask"
  /\ call[1].result.kind = "task"
  /\ call[1].updates.updated_at = 1
  /\ call[2].pc = "insert" /\ call[2].task.created_at = 0
  /\ call[1].id # call[2].id
  /\ tasks[call[1].id].title = "C"

Registered(name) == \E i \in DOMAIN tags : tags[i].name = name

AllRegistered(names) == \A k \in DOMAIN names : Registered(names[k])

\* C4: every name in the tags of every stored task is a row of the tags
\* table, and so is every name in a task write that has been issued: tag
\* resolution is over before the write is sent.
C4_TaskTagsRegistered ==
  /\ \A i \in DOMAIN tasks : AllRegistered(tasks[i].tags)
  /\ \A p \in Procs :
       /\ call[p].pc = "insert" => AllRegistered(call[p].task.tags)
       /\ call[p].pc = "update" => AllRegistered(call[p].updates.tags)

\* an updateTask with tags has been written, and the stored task carries
\* the resolved name
C4_Witness ==
  \E p \in Procs :
    /\ call[p].pc = "done" /\ call[p].op = "updateTask"
    /\ "tags" \in DOMAIN call[p].request
    /\ call[p].result.kind = "task"
    /\ call[p].id \in DOMAIN tasks
    /\ tasks[call[p].id].tags = <<Nameb>>

\* C5: a moveTask to 'complete' from another status sets completed_at, and
\* a following moveTask to a status other than 'complete' sets completed_at
\* back to null (the claim's third part, a later completed_at on the second
\* completion, presupposes this clearing).
C5_MoveCompleteThenAway ==
  [][ \A p \in Procs :
        (Answered(p, "update") /\ call[p].op = "moveTask"
           /\ call[p].id \in DOMAIN tasks) =>
          LET old == tasks[call[p].id]
              new == tasks'[call[p].id]
              status == call[p].request.status
          IN  /\ (status = "complete" /\ old.status # "complete") =>
                   new.completed_at # NoTime
              /\ status # "complete" => new.completed_at = NoTime
    ]_vars

\* the columns C6 names
FramedFields ==
  {"title", "description", "model_strategy", "estimated_token_cost",
   "estimated_dollar_cost", "status", "assignee", "tags", "created_at",
   "llm_usage"}

\* C6: an updateTask run alone leaves every column that its patch does not
\* name (other than updated_at and completed_at) as it was when the call
\* read the task, and returns the row it wrote.
C6_PartialUpdateFrame ==
  [][ \A p \in Procs :
        (Answered(p, "update") /\ call[p].op = "updateTask"
           /\ call[p].id \in DOMAIN tasks) =>
          /\ call[p].id \in DOMAIN tasks'
          /\ \A f \in FramedFields \ DOMAIN call[p].request :
               /\ tasks'[call[p].id][f] = tasks[call[p].id][f]
               /\ tasks'[call[p].id][f] = call[p].existingTask[f]
          /\ \A f \in DOMAIN call[p].request \ {"tags"} :
               tasks'[call[p].id][f] = call[p].request[f]
          /\ call'[p].result = TaskResult(tasks'[call[p].id])
    ]_vars

\* an updateTask of the title alone has been written to a task that
\* carries tags, an assignee and cost estimates
C6_Witness ==
  \E p \in Procs :
    /\ call[p].pc = "done" /\ call[p].op = "updateTask"
    /\ call[p].request = [title |-> "C"]
    /\ call[p].result.kind = "task"
    /\ call[p].result.task.title = "C"
    /\ call[p].result.task.tags # <<>>
    /\ call[p].result.task.assignee = "rufus"

\* a name in normalized form: no white space at either end, no upper case
IsNormalForm(name) ==
  /\ name # <<>> => ~IsWhiteSpace(name[1]) /\ ~IsWhiteSpace(name[Len(name)])
  /\ \A i \in DOMAIN name : ~(name[i] >= 65 /\ name[i] <= 90)

\* spellings of the one tag "a"
SpellingsOfa == {NameA, Namea, NameSpA}

\* the names call c asked to have resolved
RequestedNames(c) ==
  IF "tagNames" \in DOMAIN c THEN c.tagNames
  ELSE IF "request" \in DOMAIN c /\ "tags" \in DOMAIN c.request THEN c.request.tags
  ELSE <<>>

\* C7: tag names are normalized (trim, then lower case) before lookup and
\* creation: every name in the tags table is in normalized form and has one
\* row, and every spelling of a name resolves to the row of its normalized
\* form ("A", "a" and " A " to the one row "a").
C7_NormalizedSingleEntry ==
  /\ \A i \in DOMAIN tags :
       /\ IsNormalForm(tags[i].name)
       /\ \A j \in DOMAIN tags : tags[j].name = tags[i].name => j = i
  /\ \A p \in Procs :
       "normalized" \in DOMAIN call[p] =>
         \A k \in DOMAIN call[p].normalized \cap DOMAIN RequestedNames(call[p]) :
           /\ IsNormalForm(call[p].normalized[k])
           /\ RequestedNames(call[p])[k] \in SpellingsOfa =>
                call[p].normalized[k] = Namea
           /\ Cardinality({i \in DOMAIN tags :
                             tags[i].name = call[p].normalized[k]}) = 1

\* "A", "a" and " A " have been resolved, by two calls, and the table holds
\* the one row "a"
C7_Witness ==
  /\ call[1].pc = "done" /\ call[1].op = "ensureTagsExist"
  /\ call[1].tagNames = <<NameA, Namea>>
  /\ call[2].pc = "done" /\ call[2].op = "ensureTagsExist"
  /\ call[2].tagNames = <<NameSpA>>
  /\ Len(tags) = 1 /\ tags[1].name = Namea

\* getOrCreateTag is running for worker p
InGetOrCreateTag(p) == call[p].pc \in {"tag_select", "tag_insert", "tag_retry"}

\* C8: getOrCreateTag on a name whose normalized form has a row is
\* idempotent: no step of it changes the tags table, and when its select is
\* answered it returns that row, name and stored color.
C8_GetOrCreateExistingIdempotent ==
  [][ \A p \in Procs :
        (InGetOrCreateTag(p) /\ call'[p] # call[p]
           /\ Registered(Normalize(Head(call[p].names)))) =>
          /\ tags' = tags
          /\ call[p].pc = "tag_select" =>
               /\ "tag" \in DOMAIN call'[p]
               /\ call'[p].tag \in Rows(tags)
               /\ call'[p].tag.name = Normalize(Head(call[p].names))
               /\ call'[p].normalized = Append(call[p].normalized, call'[p].tag.name)
    ]_vars

\* a resolution of " A " has returned the row that an earlier resolution
\* created, without attempting an insert
C8_Witness ==
  /\ call[1].pc = "done" /\ call[1].op = "ensureTagsExist"
  /\ call[1].tagNames = <<NameSpA>>
  /\ "newTag" \notin DOMAIN call[1]
  /\ call[1].tag = [name |-> Namea, color |-> GenerateTagColor(Namea)]
  /\ tags = <<call[1].tag>>

\* C9: a row of the tags table stays, with its color, in every later state,
\* whatever task or tag call takes the step.
C9_TagsNeverRemoved ==
  [][ \A i \in DOMAIN tags : i \in DOMAIN tags' /\ tags'[i] = tags[i] ]_vars

\* the only task ever created carried tags and has been deleted; its tags
\* are still in the table
C9_Witness ==
  /\ started = 2 /\ nextId = 2
  /\ \E p \in Procs : call[p].pc = "done" /\ call[p].op = "deleteTask"
  /\ DOMAIN tasks = {}
  /\ Len(tags) > 0

\* C10: a call on an id that has no row when the store answers returns the
\* not-found value and never throws: null from getTaskById, updateTask and
\* moveTask (also when the row disappeared between updateTask's read and
\* its write), false from deleteTask.
C10_NotFoundIsNotAnError ==
  [][ \A p \in Procs :
        (call[p].pc \in {"get", "update", "delete"} /\ call'[p] # call[p]
           /\ call[p].id \notin DOMAIN tasks) =>
          /\ call'[p].pc = "done"
          /\ call'[p].result =
               IF call[p].op = "deleteTask" THEN BoolResult(FALSE) ELSE NullResult
          /\ call[p].id \notin DOMAIN tasks'
    ]_vars

\* an updateTask has read its task, the task was deleted before the write,
\* and the call has returned null
C10_Witness ==
  \E p \in Procs :
    /\ call[p].pc = "done" /\ call[p].op = "updateTask"
    /\ "existingTask" \in DOMAIN call[p]
    /\ call[p].result = NullResult
    /\ call[p].id \notin DOMAIN tasks

\* C11: deleteTask(id) returns true exactly when a task with that id existed
\* and was removed by the call, and false otherwise; once it has answered,
\* the id has no row.
C11_DeleteReportsRemoval ==
  [][ \A p \in Procs :
        Answered(p, "delete") =>
          /\ call'[p].result = BoolResult(call[p].id \in DOMAIN tasks)
          /\ call[p].id \notin DOMAIN tasks'
    ]_vars

\* the field f of the request, or d when the request omits it
Given(request, f, d) == IF f \in DOMAIN request THEN request[f] ELSE d

\* C12: createTask stores and returns a task with status 'new', completed_at
\* null and an empty llm_usage, with title, description and model_strategy
\* as given, and with 0, 0, null and [] for the estimated_token_cost,
\* estimated_dollar_cost, assignee and tags the request omits.
C12_CreateDefaults ==
  [][ \A p \in Procs :
        Answered(p, "insert") =>
          LET request == call[p].request
              id == call[p].id
          IN  /\ id \notin DOMAIN tasks
              /\ id \in DOMAIN tasks'
              /\ call'[p].result = TaskResult(tasks'[id])
              /\ tasks'[id].id = id
              /\ tasks'[id].status = "new"
              /\ tasks'[id].completed_at = NoTime
              /\ tasks'[id].llm_usage = <<>>
              /\ tasks'[id].title = request.title
              /\ tasks'[id].description = request.description
              /\ tasks'[id].model_strategy = request.model_strategy
              /\ tasks'[id].estimated_token_cost = Given(request, "estimated_token_cost", 0)
              /\ tasks'[id].estimated_dollar_cost = Given(request, "estimated_dollar_cost", 0)
              /\ tasks'[id].assignee = Given(request, "assignee", Null)
              /\ "tags" \notin DOMAIN request => tasks'[id].tags = <<>>
    ]_vars

\* a createTask of the minimal request has returned, and its task is stored
\* with every default
C12_Witness ==
  \E p \in Procs :
    /\ call[p].pc = "done" /\ call[p].op = "createTask"
    /\ call[p].request = MinimalRequest
    /\ call[p].result.kind = "task"
    /\ call[p].id \in DOMAIN tasks
    /\ tasks[call[p].id] = call[p].result.task
    /\ tasks[call[p].id].assignee = Null
    /\ tasks[call[p].id].tags = <<>>
    /\ tasks[call[p].id].estimated_token_cost = 0

\* C13: getAllTasks(assignee, tag) returns exactly the stored tasks that
\* match every provided filter: a passed assignee (null included) keeps the
\* tasks with that assignee, a passed tag keeps the tasks whose tags contain
\* it, and a filter that is not passed keeps every task.
C13_ListMatchesFilters ==
  [][ \A p \in Procs :
        Answered(p, "read") =>
          /\ call'[p].result.kind = "tasks"
          /\ call'[p].result.tasks =
               { t \in Rows(tasks) :
                   /\ call[p].assignee # Undefined => t.assignee = call[p].assignee
                   /\ \A name \in call[p].tag : \E i \in DOMAIN t.tags : t.tags[i] = name }
          /\ UNCHANGED <<tasks, tags>>
    ]_vars

\* the requests of tag resolution: lookup read, insert, re-read
TagRequests == {"tag_select", "tag_insert", "tag_retry"}

\* C14: a store error other than a uniqueness violation during tag
\* resolution (lookup read, insert, or re-read after a conflict) reaches the
\* caller as an error: no call that met one returns a successful result.
C14_TagFaultsPropagate ==
  \A p \in Procs :
    (call[p].pc = "done" /\ FailedRequests(call[p]) \cap TagRequests # {}) =>
      call[p].result.kind = "error"

\* C15: updateTask calls that write the same field of the same existing id
\* concurrently all complete successfully (there is no version conflict),
\* and after each write the store commits, the stored value of every field
\* in that call's patch is that call's value: the stored value is the one
\* from the write committed last.
C15_LastCommittedWriteWins ==
  [][ \A p \in Procs :
        (Answered(p, "update") /\ call[p].id \in DOMAIN tasks) =>
          LET request == call[p].request
              id == call[p].id
          IN  /\ call'[p].pc = "done"
              /\ call'[p].result.kind = "task"
              /\ call'[p].result.task = tasks'[id]
              /\ \A f \in DOMAIN request \ {"tags"} : tasks'[id][f] = request[f]
              /\ "tags" \in DOMAIN request => tasks'[id].tags = call[p].normalized
    ]_vars

\* two calls read the same task while its status was 'new', wrote different
\* statuses, and both returned the task; the stored status is that of the
\* call whose write was committed last (the other call's returned task
\* shows its own status, since overwritten)
C15_Witness ==
  \E p, q \in Procs :
    /\ p # q
    /\ call[p].pc = "done" /\ call[q].pc = "done"
    /\ call[p].op \in {"updateTask", "moveTask"}
    /\ call[q].op \in {"updateTask", "moveTask"}
    /\ call[p].id = call[q].id
    /\ call[p].id \in DOMAIN tasks
    /\ "status" \in DOMAIN call[p].request
    /\ "status" \in DOMAIN call[q].request
    /\ call[p].request.status # call[q].request.status
    /\ call[p].result.kind = "task" /\ call[q].result.kind = "task"
    /\ call[p].existingTask.status = "new"
    /\ call[q].existingTask.status = "new"
    /\ call[p].result.task.status = call[p].request.status
    /\ call[q].result.task.status = call[q].request.status
    /\ tasks[call[q].id].status = call[q].request.status

\* the task write of worker p is answered with a store error in this step
WriteFails(p) ==
  /\ call[p].pc \in {"insert", "update"}
  /\ call[p].pc \in FailedRequests(call'[p])

\* C16: when the task write of createTask or updateTask fails after tag
\* resolution, the call ends with the error, no task row is created or
\* changed, and the tags the call resolved stay in the tags table: that
\* step leaves the table as it is, and no later step removes a row from it.
C16_FailedWriteKeepsTags ==
  [][ /\ \A p \in Procs :
           WriteFails(p) =>
             /\ call'[p].pc = "done"
             /\ call'[p].result.kind = "error"
             /\ tasks' = tasks
             /\ tags' = tags
             /\ "tags" \in DOMAIN call[p].request =>
                  \A i \in DOMAIN call[p].normalized :
                    \E j \in DOMAIN tags' : tags'[j].name = call[p].normalized[i]
      /\ \A i \in DOMAIN tags : i \in DOMAIN tags' /\ tags'[i] = tags[i]
    ]_vars

\* the first call ever made, a createTask with tags, created its tags, its
\* insert failed and it ended with the error: there is no task, and the
\* tags are in the table
C16_Witness ==
  \E p \in Procs :
    /\ started = 1
    /\ call[p].pc = "done" /\ call[p].op = "createTask"
    /\ "insert" \in FailedRequests(call[p])
    /\ call[p].result.kind = "error"
    /\ DOMAIN tasks = {}
    /\ call[p].normalized # <<>>
    /\ \A i \in DOMAIN call[p].normalized :
         \E j \in DOMAIN tags : tags[j].name = call[p].normalized[i]

\* the array holds normalized names, none of them twice
IsNormalizedSet(names) ==
  /\ \A i \in DOMAIN names : IsNormalForm(names[i])
  /\ \A i, j \in DOMAIN names : names[i] = names[j] => i = j

\* C17: the tags of every stored task, and of the task returned by
\* createTask and updateTask, form a set of normalized names: each name is
\* trimmed and lower-cased and no name appears twice, even when the request
\* lists several names that normalize to the same string.
C17_TaskTagsNormalizedSet ==
  /\ \A id \in DOMAIN tasks : IsNormalizedSet(tasks[id].tags)
  /\ \A p \in Procs :
       (call[p].pc = "done" /\ call[p].op \in {"createTask", "updateTask"}
          /\ call[p].result.kind = "task") =>
         IsNormalizedSet(call[p].result.task.tags)

\* C18: every successful updateTask or moveTask refreshes updated_at to the
\* time of its write, whichever fields the patch contains: the stored
\* updated_at after the write is the time the call took for it, which is
\* not in the future, not earlier than the updated_at the task had when the
\* call read it, and not earlier than created_at.
C18_UpdatedAtRefreshed ==
  [][ \A p \in Procs :
        (Answered(p, "update") /\ call[p].id \in DOMAIN tasks) =>
          LET id == call[p].id
          IN  /\ "updated_at" \in DOMAIN call[p].updates
              /\ tasks'[id].updated_at = call[p].updates.updated_at
              /\ tasks'[id].updated_at <= clock
              /\ tasks'[id].updated_at >= call[p].existingTask.updated_at
              /\ tasks'[id].updated_at >= tasks'[id].created_at
              /\ call'[p].result = TaskResult(tasks'[id])
    ]_vars

\* an updateTask with the patch {title} has returned a task whose
\* updated_at is later than the one it read and later than created_at
C18_Witness ==
  \E p \in Procs :
    /\ call[p].pc = "done" /\ call[p].op = "updateTask"
    /\ call[p].request = [title |-> "C"]
    /\ call[p].result.kind = "task"
    /\ call[p].result.task.updated_at > call[p].existingTask.updated_at
    /\ call[p].result.task.updated_at > call[p].result.task.created_at

\* the body gives a field of the route's request an invalid value: a title
\* that is empty (once trimmed) or longer than 200 characters, a description
\* longer than 10,000 characters, a model_strategy or status outside its
\* enum, a negative cost estimate
InvalidBody(route, body) ==
  \/ /\ "title" \in DOMAIN body
     /\ Len(Trim(body.title)) = 0 \/ Len(Trim(body.title)) > 200
  \/ /\ "description" \in DOMAIN body
     /\ Len(Trim(body.description)) > 10000
  \/ /\ "model_strategy" \in DOMAIN body
     /\ body.model_strategy \notin {"opus-planning", "opus-coding", "sonnet-coding", "mixed"}
  \/ /\ "estimated_token_cost" \in DOMAIN body
     /\ body.estimated_token_cost < 0
  \/ /\ "estimated_dollar_cost" \in DOMAIN body
     /\ body.estimated_dollar_cost < 0
  \/ /\ route # "POST /"
     /\ "status" \in DOMAIN body
     /\ body.status \notin {"new", "approved", "in-progress", "complete"}

MovedTo(row, existingTask, status, now) ==
  [row EXCEPT !.status = status,
              !.tags = existingTask.tags,
              !.updated_at = now,
              !.completed_at = IF status = "complete" /\ existingTask.status # "complete"
                                 THEN now ELSE @]

\* C20: moveTask(id, status) is equivalent to updateTask(id, {status}): each
\* store answer takes a call of either kind to the same next point, with
\* the same result (task or null) and the same stored state, the
\* completed_at and updated_at effects included.  The outcome of a step is
\* given below as a function of the stored state, what the call has read
\* and the time it took, in which the kind of call does not occur.
C20_MoveIsUpdateStatus ==
  [][ \A p \in Procs :
        (/\ call[p].op \in {"moveTask", "updateTask"}
         /\ DOMAIN call[p].request = {"status"}
         /\ Running(p)
         /\ call'[p] # call[p]) =>
          LET id == call[p].id
              status == call[p].request.status
          IN  IF call[p].pc = "get"
                THEN /\ tasks' = tasks
                     /\ IF id \notin DOMAIN tasks
                          THEN /\ call'[p].pc = "done"
                               /\ call'[p].result = NullResult
                          ELSE /\ call'[p].pc = "update"
                               /\ call'[p].existingTask = tasks[id]
                               /\ call'[p].updates.updated_at = clock
                ELSE /\ call[p].pc = "update"
                     /\ "existingTask" \in DOMAIN call[p]
                     /\ call'[p].pc = "done"
                     /\ IF id \notin DOMAIN tasks
                          THEN /\ tasks' = tasks
                               /\ call'[p].result = NullResult
                          ELSE /\ tasks' = [tasks EXCEPT ![id] =
                                              MovedTo(tasks[id], call[p].existingTask, status,
                                                      call[p].updates.updated_at)]
                               /\ call'[p].result = TaskResult(tasks'[id])
    ]_vars

\* a moveTask(id, 'complete') and an updateTask(id, {status: 'complete'})
\* read the same stored task at the same time; both have returned, with the
\* same task, which is the stored one and carries completed_at
C20_Witness ==
  \E p, q \in Procs :
    /\ call[p].pc = "done" /\ call[p].op = "moveTask"
    /\ call[q].pc = "done" /\ call[q].op = "updateTask"
    /\ call[p].id = call[q].id
    /\ call[p].request = [status |-> "complete"]
    /\ call[q].request = call[p].request
    /\ "existingTask" \in DOMAIN call[p] /\ "existingTask" \in DOMAIN call[q]
    /\ call[p].existingTask = call[q].existingTask
    /\ call[p].updates = call[q].updates
    /\ call[p].result.kind = "task"
    /\ call[p].result = call[q].result
    /\ tasks[call[p].id] = call[p].result.task
    /\ call[p].result.task.completed_at # NoTime
    /\ call[p].result.task.updated_at > call[p].result.task.created_at

\* the name a comes strictly before the name b in ascending order: at the
\* first position where they differ a ends or has the smaller code unit
Precedes(a, b) ==
  \E k \in 1..Len(b) :
    /\ \A i \in 1..(k - 1) : i <= Len(a) /\ a[i] = b[i]
    /\ k > Len(a) \/ a[k] < b[k]

\* listed holds every row of the registry exactly once, by ascending name
ListedOnceByName(listed, registry) ==
  /\ Len(listed) = Len(registry)
  /\ \A i \in DOMAIN registry :
       Cardinality({k \in DOMAIN listed :
                      listed[k].name = registry[i].name
                        /\ listed[k].color = registry[i].color}) = 1
  /\ \A i, j \in DOMAIN listed : i < j => Precedes(listed[i].name, listed[j].name)

\* C21: getAllTags returns every tag in the registry exactly once, ordered
\* by name ascending; the registry is the tags table for the Supabase tag
\* service and data.tags of the data file for the file-based tag service.
C21_TagsListedOnceByName ==
  [][ \A p \in Procs :
        /\ Answered(p, "tag_list") =>
             /\ call'[p].result.kind = "tags"
             /\ ListedOnceByName(call'[p].result.tags, tags)
        /\ Answered(p, "file_list") =>
             /\ call'[p].result.kind = "tags"
             /\ ListedOnceByName(call'[p].result.tags, FileTags(file))
    ]_vars

\* C22: on the task list endpoint, assignee=null (the literal string)
\* selects exactly the unassigned tasks, an absent assignee parameter applies
\* no assignee filter, another assignee value selects that assignee's tasks,
\* and tag=<name> restricts the result to the tasks carrying that tag.
C22_ListEndpointParams ==
  [][ \A p \in Procs :
        (Answered(p, "read") /\ "query" \in DOMAIN call[p]) =>
          LET query == call[p].query
          IN  /\ call'[p].result.kind = "tasks"
              /\ call'[p].result.tasks =
                   { t \in Rows(tasks) :
                       /\ query.assignee = "null" => t.assignee = Null
                       /\ query.assignee \notin {Undefined, "null"} =>
                            t.assignee = query.assignee
                       /\ \A name \in query.tag :
                            \E i \in DOMAIN t.tags : t.tags[i] = name }
    ]_vars

\* C23: an updateTask (or moveTask) whose patch does not contain tags never
\* changes the stored tags, also when it runs concurrently with an
\* updateTask on the same id that sets tags: its write leaves the tags of
\* the row as they are, so that the tags written by the tag-setting update
\* stay whichever order the two writes commit in.
C23_UpdateWithoutTagsKeepsTags ==
  [][ \A p \in Procs :
        (/\ Answered(p, "update")
         /\ "tags" \notin DOMAIN call[p].request
         /\ call[p].id \in DOMAIN tasks) =>
          tasks'[call[p].id].tags = tasks[call[p].id].tags
    ]_vars

\* C24: in every reachable state, under any interleaving of concurrent
\* updateTask and moveTask calls on the same id (each reading the existing
\* status before it writes), a stored task whose status is 'complete' has a
\* non-null completed_at.
C24_CompleteHasCompletedAt ==
  \A id \in DOMAIN tasks :
    tasks[id].status = "complete" => tasks[id].completed_at # NoTime

\* two calls on the same id both read the task while its status was 'new',
\* one moved it to 'in-progress' and the other to 'complete'; the write to
\* 'complete' was committed last, and the task has its completed_at
C24_Witness ==
  \E p, q \in Procs :
    /\ p # q
    /\ call[p].pc = "done" /\ call[q].pc = "done"
    /\ call[p].op = "moveTask" /\ call[q].op = "moveTask"
    /\ call[p].id = call[q].id
    /\ call[p].id \in DOMAIN tasks
    /\ call[p].request.status = "in-progress"
    /\ call[q].request.status = "complete"
    /\ call[p].result.kind = "task" /\ call[q].result.kind = "task"
    /\ call[p].existingTask.status = "new"
    /\ call[q].existingTask.status = "new"
    /\ call[q].result.task = tasks[call[q].id]
    /\ tasks[call[q].id].status = "complete"
    /\ tasks[call[q].id].completed_at # NoTime

\* the id was handed out, its createTask has inserted the row, and the row
\* is not there any more: a deleteTask has removed it
Removed(id) ==
  /\ id < nextId
  /\ id \notin DOMAIN tasks
  /\ \A p \in Procs : ~(Running(p) /\ call[p].op = "createTask" /\ call[p].id = id)

\* C25: after deleteTask(id) has removed a task, no task with that id ever
\* exists again: no step brings the row back, and an updateTask or moveTask
\* that read the task before the delete and writes after it returns null
\* and leaves the tasks as they are.
C25_NoResurrectionAfterDelete ==
  [][ /\ \A id \in TaskIds : Removed(id) => id \notin DOMAIN tasks'
      /\ \A p \in Procs :
           (Answered(p, "update") /\ Removed(call[p].id)) =>
             /\ call'[p].pc = "done"
             /\ call'[p].result = NullResult
             /\ tasks' = tasks
    ]_vars

\* a moveTask read its task, a deleteTask of the same id removed the row
\* before the moveTask wrote, and the moveTask has returned null
C25_Witness ==
  \E p, q \in Procs :
    /\ call[p].pc = "done" /\ call[p].op = "moveTask"
    /\ "existingTask" \in DOMAIN call[p]
    /\ call[p].result = NullResult
    /\ call[q].pc = "done" /\ call[q].op = "deleteTask"
    /\ call[q].id = call[p].id
    /\ Removed(call[p].id)

\* C26: updateTask or moveTask with status 'complete' on a task that is
\* already complete leaves completed_at at its existing value; completed_at
\* changes only in a write for 'complete' to a task that was not complete,
\* which sets it to the time of the call.
C26_CompletionStampedOnce ==
  [][ \A p \in Procs :
        (Answered(p, "update") /\ call[p].id \in DOMAIN tasks) =>
          LET id == call[p].id
              request == call[p].request
              forComplete == "status" \in DOMAIN request /\ request.status = "complete"
          IN  /\ (forComplete /\ tasks[id].status = "complete") =>
                   tasks'[id].completed_at = tasks[id].completed_at
              /\ tasks'[id].completed_at # tasks[id].completed_at =>
                   /\ forComplete
                   /\ tasks[id].status # "complete"
                   /\ tasks'[id].completed_at = tasks'[id].updated_at
    ]_vars

\* a moveTask to 'complete' of a task that was complete has returned: the
\* task keeps the completed_at it had, which is earlier than the updated_at
\* of this write
C26_Witness ==
  \E p \in Procs :
    /\ call[p].pc = "done" /\ call[p].op = "moveTask"
    /\ call[p].request.status = "complete"
    /\ call[p].result.kind = "task"
    /\ call[p].existingTask.status = "complete"
    /\ call[p].existingTask.completed_at # NoTime
    /\ call[p].result.task.completed_at = call[p].existingTask.completed_at
    /\ call[p].result.task.updated_at > call[p].result.task.completed_at
    /\ tasks[call[p].id] = call[p].result.task

\* the workers whose withLock callback is running
CallbacksRunning == {p \in Procs : call[p].pc \in {"file_read", "file_write"}}

\* the workers between the grant of the lock and the end of release()
BetweenLockAndRelease == {p \in Procs : call[p].pc \in {"file_read", "file_write", "release"}}

UpdateFindsNothing(p) ==
  /\ call[p].op = "updateTask"
  /\ call[p].pc = "get"
  /\ \A i \in DOMAIN tasks : tasks[i].id # call[p].id

\* C28: updateTask on an id with no stored task returns null without resolving
\* any tags.  When storage answers that there is no such task, the call ends
\* at once with null: it has sent no request to the tag registry before, it
\* sends none now, and the registry is as it was, also when the patch lists
\* tag names that are not registered.
C28_MissingTaskResolvesNoTags ==
  [][ \A p \in Procs :
        (UpdateFindsNothing(p) /\ call'[p] # call[p]) =>
          /\ DOMAIN call[p] = {"op", "pc", "id", "request"}
          /\ call'[p].pc = "done"
          /\ call'[p].result = [kind |-> "null"]
          /\ tags' = tags
    ]_vars

\* an updateTask whose patch lists the unregistered tag "b" was called on an
\* id that was never created; it has returned null and "b" is not registered
C28_Witness ==
  \E p \in Procs :
    /\ call[p].op = "updateTask"
    /\ call[p].pc = "done"
    /\ "tags" \in DOMAIN call[p].request
    /\ call[p].request.tags = <<Nameb>>
    /\ nextId <= call[p].id
    /\ call[p].result = [kind |-> "null"]
    /\ \A i \in DOMAIN tags : tags[i].name # Nameb

\* the tags generateTagColor has coloured: the rows of the registry and the
\* tags that calls are about to insert
ColouredTags ==
  {tags[i] : i \in DOMAIN tags}
    \cup {call[p].newTag : p \in {q \in Procs : "newTag" \in DOMAIN call[q]}}

\* the palette index of a name, worked out with unbounded integers:
\* |sum of name[i] * 31^(n-1-i) wrapped to 32 bits| mod 12
ReferenceIndex(name) ==
  CASE name = NamePoly -> 8
    [] name = NameUrgent -> 3
    [] name = NameDocumentation -> 6
    [] OTHER -> -1

\* C29: generateTagColor is a deterministic total function of the name.  For
\* every name the 32-bit wrapping hash gives an index abs(hash) mod 12 that
\* lies in 0..11, also when the hash is -2^31, so every created tag has one
\* of the 12 palette colours, tags with equal normalized names have the same
\* colour, and the index is the one exact arithmetic gives.
C29_TagColorInPalette ==
  /\ \A t \in ColouredTags :
       /\ t.color \in 0 .. 11
       /\ t.color = ReferenceIndex(t.name)
  /\ \A t, u \in ColouredTags : t.name = u.name => t.color = u.color

\* the tag "polygenelubricants", whose hash is -2^31, is registered with
\* palette index 8, after a request that named it " Polygenelubricants"
C29_Witness ==
  /\ \E i \in DOMAIN tags :
       /\ tags[i].name = NamePoly
       /\ Hash(tags[i].name) = -2147483647 - 1
       /\ tags[i].color = 8
  /\ \E p \in Procs :
       /\ call[p].pc = "done"
       /\ call[p].tagNames = <<NamePolyMixed, NameUrgent>>
       /\ call[p].result.kind = "names"

\* the request body carries a status or an assignee outside its enum
OutsideEnums(body) ==
  \/ "status" \in DOMAIN body
       /\ body.status \notin {"new", "approved", "in-progress", "complete"}
  \/ "assignee" \in DOMAIN body
       /\ body.assignee \notin {"rufus", "james", Null}

\* C30: in every reachable state each stored task has status in {new,
\* approved, in-progress, complete} and assignee in {rufus, james, null}; a
\* create or update request that carries another status or assignee value
\* is answered as invalid and nothing of it is stored.
C30_StatusAssigneeInEnums ==
  /\ \A i \in DOMAIN tasks :
       /\ tasks[i].status \in {"new", "approved", "in-progress", "complete"}
       /\ tasks[i].assignee \in {"rufus", "james", Null}
  /\ \A p \in Procs :
       (call[p].pc = "done" /\ "body" \in DOMAIN call[p] /\ OutsideEnums(call[p].body))
         => call[p].result.kind = "invalid"

====
